---- MODULE Spec2Model ----
(***************************************************************************)
(* A model of platform/java/jni/nativedevice.c: the JNI dispatcher that    *)
(* forwards the drawing operations of a Java NativeDevice to an fz_device, *)
(* taking the device's lock around each backend call.                      *)
(*                                                                         *)
(* One action is one JNI entry point, run from its first line to its       *)
(* return.  Each call leaves behind what it did: `log` is the sequence of  *)
(* the externally visible steps of the call in the order the code takes    *)
(* them (lock, backend call, unlock, exceptions thrown), `bk` is what the  *)
(* backend received, `ret` the value returned to Java and `inp` the        *)
(* arguments of the call.                                                  *)
(***************************************************************************)
EXTENDS Integers, Sequences, FiniteSets

VARIABLES
    pointer,        \* Device.pointer: 1 while the fz_device exists, 0 once released
    isNative,       \* IsInstanceOf(self, cls_NativeDevice)
    nativeInfo,     \* NativeDevice.nativeInfo: 0, or 1 for the NativeDeviceInfo
    nativeResource, \* NativeDevice.nativeResource: the Java object to lock
    infoObject,     \* info->object: the reference cached in the handle (NULL: none yet)
    held,           \* how many successful info->lock calls have no info->unlock yet
    tileDepth,      \* the backend's stack of open tiles
    pixmapDrops,    \* calls of fz_drop_pixmap on the handle's pixmap
    infoFrees,      \* calls of fz_free on the handle's storage
    op,             \* the entry point of the last call
    inp,            \* its arguments
    log,            \* its steps, in order
    bk,             \* what the backend received in it
    ret             \* the value it returned (beginTile), else 0

vars == <<pointer, isNative, nativeInfo, nativeResource, infoObject, held,
          tileDepth, pixmapDrops, infoFrees, op, inp, log, bk, ret>>

(***************************************************************************)
(* Bounds of the model.                                                    *)
(***************************************************************************)
MaxTileDepth == 1
MaxFinalize == 2
MaxToken == 1

(***************************************************************************)
(* Values.                                                                 *)
(***************************************************************************)
NULL == "NULL"
FZ_MAX_COLORS == 32

JRefs == {"null", "obj"}
JColorSpaces == {"null", "gray", "rgb"}
ColorLens == {1, 3, FZ_MAX_COLORS}
JNames == {"null", "str"}
Tokens == 0 .. MaxToken
Resources == {"bitmapA", "bitmapB"}
TileIds == {0, 1}
Uninitialised == {NULL, "garbage"}
\* (rect, luminosity) and (rect, isolated, knockout, blendmode, alpha) as passed by the caller.
MaskArgs == {<<"null", FALSE>>, <<"obj", TRUE>>}
GroupArgs == {<<"null", FALSE, TRUE, 0, 1>>, <<"obj", TRUE, FALSE, 1, 0>>}

\* The messages of jni_throw_arg, as the source spells them.
ArgErrors == {"path must not be null", "stroke must not be null",
              "text must not be null", "shade must not be null",
              "image must not be null"}
ColorError == "color length mismatch"

NoIn == [ctx |-> TRUE, prim |-> "na", stroke |-> "na", jcs |-> "na",
         ncolor |-> -1, jname |-> "na", x |-> <<>>]
NoBk == [called |-> FALSE, cs |-> "na", name |-> "na", x |-> <<>>, token |-> 0]

Count(l, e) == Cardinality({k \in DOMAIN l : l[k] = e})
Has(l, e) == \E k \in DOMAIN l : l[k] = e
Pos(l, e) == IF Has(l, e) THEN CHOOSE k \in DOMAIN l : l[k] = e /\ \A m \in DOMAIN l : l[m] = e => k <= m
             ELSE 0

(***************************************************************************)
(* Resource resolution: a Java reference to the native object behind it.   *)
(***************************************************************************)
from_Path(j) == IF j = "null" THEN NULL ELSE "path"
from_Text(j) == IF j = "null" THEN NULL ELSE "text"
from_StrokeState(j) == IF j = "null" THEN NULL ELSE "stroke"
from_Shade(j) == IF j = "null" THEN NULL ELSE "shade"
from_Image(j) == IF j = "null" THEN NULL ELSE "image"
from_Rect(j) == IF j = "null" THEN "empty" ELSE "rect"
from_ColorSpace(j) == IF j = "gray" THEN "device_gray" ELSE IF j = "rgb" THEN "device_rgb" ELSE NULL
fz_colorspace_n(cs) == IF cs = "device_gray" THEN 1 ELSE 3

\* from_ColorSpace applied to an object that is no ColorSpace (beginGroup
\* passes the device itself): the field read is of a foreign object, and
\* yields whatever lies there, never the caller's color space.
from_ColorSpace_of_self == {NULL, "garbage"}

\* from_jfloatArray(env, color, n, jcolor): the array must hold n floats.
from_jfloatArray(n, len) == len = n

\* cs ? fz_colorspace_n(ctx, cs) : FZ_MAX_COLORS
\* (ExpectedN_max: FZ_MAX_COLORS whatever the color space.)
ExpectedN_max(cs) == FZ_MAX_COLORS
ExpectedN(cs) == IF cs # NULL THEN fz_colorspace_n(cs) ELSE FZ_MAX_COLORS

jni_throw_arg(msg) == <<msg>>
jni_rethrow == <<"throw_BackendFailure">>

(***************************************************************************)
(* The handle's lock and unlock functions, supplied by the device variant. *)
(***************************************************************************)
info_lock(lockOk) == IF lockOk THEN <<"lock_ok">> ELSE <<"lock_fail", "throw_LockFailure">>
info_unlock == <<"unlock">>

\* fz_device *dev = from_Device(env, self): NULL once the device is released.
from_Device == IF pointer = 0 THEN NULL ELSE "dev"

\* if (!ctx || !dev) return;
\* (Live_ctx_only: the check without `|| !dev`.)
Live_ctx_only(ctx) == ctx
\* (Live_notclosed: a check that also turns away the call that follows a close.)
Live_notclosed(ctx) == ctx /\ from_Device # NULL /\ op # "close"
Live(ctx) == ctx /\ from_Device # NULL

\* lockNativeDevice returns the handle it locked, NULL when there is none to
\* lock, and NULL with *err = 1 when info->lock failed.
\* (lockNativeDevice_err0: without `*err = 1`; lockNativeDevice_nocheck:
\* without the IsInstanceOf and `if (!info)` checks.)
lockNativeDevice_err0(lockOk) ==
    IF ~isNative THEN [info |-> NULL, err |-> 0, ev |-> <<>>]
    ELSE IF nativeInfo = 0 THEN [info |-> NULL, err |-> 0, ev |-> <<>>]
    ELSE IF ~lockOk THEN [info |-> NULL, err |-> 0, ev |-> <<"refresh">> \o info_lock(lockOk)]
    ELSE [info |-> "info", err |-> 0, ev |-> <<"refresh">> \o info_lock(lockOk)]
lockNativeDevice_nocheck(lockOk) ==
    IF ~lockOk THEN [info |-> NULL, err |-> 1, ev |-> <<"refresh">> \o info_lock(lockOk)]
    ELSE [info |-> "info", err |-> 0, ev |-> <<"refresh">> \o info_lock(lockOk)]
\* (lockNativeDevice_noinstance: without the IsInstanceOf check, the nativeInfo
\* field being read of an object that has none.)
lockNativeDevice_noinstance(lockOk) ==
    IF isNative /\ nativeInfo = 0 THEN [info |-> NULL, err |-> 0, ev |-> <<>>]
    ELSE IF ~lockOk THEN [info |-> NULL, err |-> 1, ev |-> <<"refresh">> \o info_lock(lockOk)]
    ELSE [info |-> "info", err |-> 0, ev |-> <<"refresh">> \o info_lock(lockOk)]
\* (lockNativeDevice_norefresh: without `info->object = GetObjectField(...)`.)
lockNativeDevice_norefresh(lockOk) ==
    IF ~isNative THEN [info |-> NULL, err |-> 0, ev |-> <<>>]
    ELSE IF nativeInfo = 0 THEN [info |-> NULL, err |-> 0, ev |-> <<>>]
    ELSE IF ~lockOk THEN [info |-> NULL, err |-> 1, ev |-> info_lock(lockOk)]
    ELSE [info |-> "info", err |-> 0, ev |-> info_lock(lockOk)]
lockNativeDevice(lockOk) ==
    IF ~isNative THEN [info |-> NULL, err |-> 0, ev |-> <<>>]
    ELSE IF nativeInfo = 0 THEN [info |-> NULL, err |-> 0, ev |-> <<>>]
    ELSE IF ~lockOk THEN [info |-> NULL, err |-> 1, ev |-> <<"refresh">> \o info_lock(lockOk)]
    ELSE [info |-> "info", err |-> 0, ev |-> <<"refresh">> \o info_lock(lockOk)]

unlockNativeDevice(info) == IF info # NULL THEN info_unlock ELSE <<>>

\* fz_try(ctx) <backend call> fz_always(ctx) <always> fz_catch(ctx) return jni_rethrow(env, ctx);
\* (fz_try_always_catch_late: the rethrow before the always block;
\* fz_try_always_catch_skip: the always block on the success path only;
\* fz_try_always_catch_swallow: a catch that does not rethrow.)
fz_try_always_catch_late(bkOk, always) ==
    IF bkOk THEN <<"backend_ok">> \o always
    ELSE <<"backend_fail">> \o jni_rethrow \o always
fz_try_always_catch_skip(bkOk, always) ==
    IF bkOk THEN <<"backend_ok">> \o always
    ELSE <<"backend_fail">> \o jni_rethrow
fz_try_always_catch_swallow(bkOk, always) ==
    <<IF bkOk THEN "backend_ok" ELSE "backend_fail">> \o always
\* (fz_try_always_catch_early: the always block before the backend call.)
fz_try_always_catch_early(bkOk, always) ==
    always \o <<IF bkOk THEN "backend_ok" ELSE "backend_fail">>
        \o (IF bkOk THEN <<>> ELSE jni_rethrow)
fz_try_always_catch(bkOk, always) ==
    <<IF bkOk THEN "backend_ok" ELSE "backend_fail">> \o always
        \o (IF bkOk THEN <<>> ELSE jni_rethrow)

\* info = lockNativeDevice(env, self, &err); if (err) return; fz_try ... fz_catch
\* (Invoke_retry: a second lockNativeDevice after one that failed.)
Invoke_retry(lockOk, bkOk) ==
    LET lk == lockNativeDevice(lockOk)
    IN  IF lk.err # 0 THEN lk.ev \o lk.ev
        ELSE lk.ev \o fz_try_always_catch(bkOk, unlockNativeDevice(lk.info))
Invoke(lockOk, bkOk) ==
    LET lk == lockNativeDevice(lockOk)
    IN  IF lk.err # 0 THEN lk.ev
        ELSE lk.ev \o fz_try_always_catch(bkOk, unlockNativeDevice(lk.info))

(***************************************************************************)
(* The rendering backend: each fz_* call succeeds or throws.  It keeps the *)
(* stack of open tiles and rejects an fz_end_tile that matches none.       *)
(***************************************************************************)
fz_end_tile_ok(bkOk) == bkOk /\ tileDepth > 0

\* What a call leaves behind.
Return(o, i, l, b, r) ==
    /\ op' = o
    /\ inp' = i
    /\ log' = l
    /\ bk' = IF Has(l, "backend_ok") \/ Has(l, "backend_fail") THEN [b EXCEPT !.called = TRUE] ELSE NoBk
    /\ ret' = r
    /\ held' = held + Count(l, "lock_ok") - Count(l, "unlock")
    /\ infoObject' = IF Has(l, "refresh") THEN nativeResource ELSE infoObject
    /\ tileDepth' = IF o = "beginTile" /\ Has(l, "backend_ok") THEN tileDepth + 1
                    ELSE IF o = "endTile" /\ Has(l, "backend_ok") THEN tileDepth - 1
                    ELSE tileDepth
    /\ UNCHANGED <<pointer, isNative, nativeInfo, nativeResource, pixmapDrops, infoFrees>>

Init ==
    /\ pointer = 1
    /\ isNative \in BOOLEAN
    /\ nativeInfo \in {0, 1}
    /\ (nativeInfo = 1 => isNative)
    /\ nativeResource = "bitmapA"
    /\ infoObject = NULL
    /\ held = 0
    /\ tileDepth = 0
    /\ pixmapDrops = 0
    /\ infoFrees = 0
    /\ op = "init"
    /\ inp = NoIn
    /\ log = <<>>
    /\ bk = NoBk
    /\ ret = 0

(***************************************************************************)
(* The JNI entry points.  The outcome of info->lock and of the backend     *)
(* call is drawn where the code makes the call.                            *)
(***************************************************************************)
NativeDevice_close ==
    \E ctx \in BOOLEAN :
        LET i == [NoIn EXCEPT !.ctx = ctx]
        IN  IF ~Live(ctx) THEN Return("close", i, <<>>, NoBk, 0)
            ELSE \E lockOk \in BOOLEAN, bkOk \in BOOLEAN :
                     Return("close", i, Invoke(lockOk, bkOk), NoBk, 0)

NativeDevice_fillPath ==
    \E ctx \in BOOLEAN, jprim \in JRefs, jcs \in JColorSpaces, n \in ColorLens :
        LET path == from_Path(jprim)
            cs == from_ColorSpace(jcs)
            i == [NoIn EXCEPT !.ctx = ctx, !.prim = jprim, !.jcs = jcs, !.ncolor = n]
        IN  IF ~Live(ctx) THEN Return("fillPath", i, <<>>, NoBk, 0)
            ELSE IF path = NULL THEN Return("fillPath", i, jni_throw_arg("path must not be null"), NoBk, 0)
            ELSE IF ~from_jfloatArray(ExpectedN(cs), n) THEN Return("fillPath", i, <<ColorError>>, NoBk, 0)
            ELSE \E lockOk \in BOOLEAN, bkOk \in BOOLEAN :
                     Return("fillPath", i, Invoke(lockOk, bkOk), [NoBk EXCEPT !.cs = cs], 0)

\* (NativeDevice_strokePath_strokefirst: the check of stroke before the check
\* of path.)
NativeDevice_strokePath_strokefirst ==
    \E ctx \in BOOLEAN, jprim \in JRefs, jstroke \in JRefs, jcs \in JColorSpaces, n \in ColorLens :
        LET path == from_Path(jprim)
            stroke == from_StrokeState(jstroke)
            cs == from_ColorSpace(jcs)
            i == [NoIn EXCEPT !.ctx = ctx, !.prim = jprim, !.stroke = jstroke, !.jcs = jcs, !.ncolor = n]
        IN  IF ~Live(ctx) THEN Return("strokePath", i, <<>>, NoBk, 0)
            ELSE IF stroke = NULL THEN Return("strokePath", i, jni_throw_arg("stroke must not be null"), NoBk, 0)
            ELSE IF path = NULL THEN Return("strokePath", i, jni_throw_arg("path must not be null"), NoBk, 0)
            ELSE IF ~from_jfloatArray(ExpectedN(cs), n) THEN Return("strokePath", i, <<ColorError>>, NoBk, 0)
            ELSE \E lockOk \in BOOLEAN, bkOk \in BOOLEAN :
                     Return("strokePath", i, Invoke(lockOk, bkOk), [NoBk EXCEPT !.cs = cs], 0)
NativeDevice_strokePath ==
    \E ctx \in BOOLEAN, jprim \in JRefs, jstroke \in JRefs, jcs \in JColorSpaces, n \in ColorLens :
        LET path == from_Path(jprim)
            stroke == from_StrokeState(jstroke)
            cs == from_ColorSpace(jcs)
            i == [NoIn EXCEPT !.ctx = ctx, !.prim = jprim, !.stroke = jstroke, !.jcs = jcs, !.ncolor = n]
        IN  IF ~Live(ctx) THEN Return("strokePath", i, <<>>, NoBk, 0)
            ELSE IF path = NULL THEN Return("strokePath", i, jni_throw_arg("path must not be null"), NoBk, 0)
            ELSE IF stroke = NULL THEN Return("strokePath", i, jni_throw_arg("stroke must not be null"), NoBk, 0)
            ELSE IF ~from_jfloatArray(ExpectedN(cs), n) THEN Return("strokePath", i, <<ColorError>>, NoBk, 0)
            ELSE \E lockOk \in BOOLEAN, bkOk \in BOOLEAN :
                     Return("strokePath", i, Invoke(lockOk, bkOk), [NoBk EXCEPT !.cs = cs], 0)

NativeDevice_clipPath ==
    \E ctx \in BOOLEAN, jprim \in JRefs :
        LET path == from_Path(jprim)
            i == [NoIn EXCEPT !.ctx = ctx, !.prim = jprim]
        IN  IF ~Live(ctx) THEN Return("clipPath", i, <<>>, NoBk, 0)
            ELSE IF path = NULL THEN Return("clipPath", i, jni_throw_arg("path must not be null"), NoBk, 0)
            ELSE \E lockOk \in BOOLEAN, bkOk \in BOOLEAN :
                     Return("clipPath", i, Invoke(lockOk, bkOk), NoBk, 0)

NativeDevice_clipStrokePath ==
    \E ctx \in BOOLEAN, jprim \in JRefs, jstroke \in JRefs :
        LET path == from_Path(jprim)
            stroke == from_StrokeState(jstroke)
            i == [NoIn EXCEPT !.ctx = ctx, !.prim = jprim, !.stroke = jstroke]
        IN  IF ~Live(ctx) THEN Return("clipStrokePath", i, <<>>, NoBk, 0)
            ELSE IF path = NULL THEN Return("clipStrokePath", i, jni_throw_arg("path must not be null"), NoBk, 0)
            ELSE IF stroke = NULL THEN Return("clipStrokePath", i, jni_throw_arg("stroke must not be null"), NoBk, 0)
            ELSE \E lockOk \in BOOLEAN, bkOk \in BOOLEAN :
                     Return("clipStrokePath", i, Invoke(lockOk, bkOk), NoBk, 0)

NativeDevice_fillText ==
    \E ctx \in BOOLEAN, jprim \in JRefs, jcs \in JColorSpaces, n \in ColorLens :
        LET text == from_Text(jprim)
            cs == from_ColorSpace(jcs)
            i == [NoIn EXCEPT !.ctx = ctx, !.prim = jprim, !.jcs = jcs, !.ncolor = n]
        IN  IF ~Live(ctx) THEN Return("fillText", i, <<>>, NoBk, 0)
            ELSE IF text = NULL THEN Return("fillText", i, jni_throw_arg("text must not be null"), NoBk, 0)
            ELSE IF ~from_jfloatArray(ExpectedN(cs), n) THEN Return("fillText", i, <<ColorError>>, NoBk, 0)
            ELSE \E lockOk \in BOOLEAN, bkOk \in BOOLEAN :
                     Return("fillText", i, Invoke(lockOk, bkOk), [NoBk EXCEPT !.cs = cs], 0)

NativeDevice_strokeText ==
    \E ctx \in BOOLEAN, jprim \in JRefs, jstroke \in JRefs, jcs \in JColorSpaces, n \in ColorLens :
        LET text == from_Text(jprim)
            stroke == from_StrokeState(jstroke)
            cs == from_ColorSpace(jcs)
            i == [NoIn EXCEPT !.ctx = ctx, !.prim = jprim, !.stroke = jstroke, !.jcs = jcs, !.ncolor = n]
        IN  IF ~Live(ctx) THEN Return("strokeText", i, <<>>, NoBk, 0)
            ELSE IF text = NULL THEN Return("strokeText", i, jni_throw_arg("text must not be null"), NoBk, 0)
            ELSE IF stroke = NULL THEN Return("strokeText", i, jni_throw_arg("stroke must not be null"), NoBk, 0)
            ELSE IF ~from_jfloatArray(ExpectedN(cs), n) THEN Return("strokeText", i, <<ColorError>>, NoBk, 0)
            ELSE \E lockOk \in BOOLEAN, bkOk \in BOOLEAN :
                     Return("strokeText", i, Invoke(lockOk, bkOk), [NoBk EXCEPT !.cs = cs], 0)

NativeDevice_clipText ==
    \E ctx \in BOOLEAN, jprim \in JRefs :
        LET text == from_Text(jprim)
            i == [NoIn EXCEPT !.ctx = ctx, !.prim = jprim]
        IN  IF ~Live(ctx) THEN Return("clipText", i, <<>>, NoBk, 0)
            ELSE IF text = NULL THEN Return("clipText", i, jni_throw_arg("text must not be null"), NoBk, 0)
            ELSE \E lockOk \in BOOLEAN, bkOk \in BOOLEAN :
                     Return("clipText", i, Invoke(lockOk, bkOk), NoBk, 0)

\* (NativeDevice_clipStrokeText_nostroke: without the check of stroke.)
NativeDevice_clipStrokeText_nostroke ==
    \E ctx \in BOOLEAN, jprim \in JRefs, jstroke \in JRefs :
        LET text == from_Text(jprim)
            i == [NoIn EXCEPT !.ctx = ctx, !.prim = jprim, !.stroke = jstroke]
        IN  IF ~Live(ctx) THEN Return("clipStrokeText", i, <<>>, NoBk, 0)
            ELSE IF text = NULL THEN Return("clipStrokeText", i, jni_throw_arg("text must not be null"), NoBk, 0)
            ELSE \E lockOk \in BOOLEAN, bkOk \in BOOLEAN :
                     Return("clipStrokeText", i, Invoke(lockOk, bkOk), NoBk, 0)
NativeDevice_clipStrokeText ==
    \E ctx \in BOOLEAN, jprim \in JRefs, jstroke \in JRefs :
        LET text == from_Text(jprim)
            stroke == from_StrokeState(jstroke)
            i == [NoIn EXCEPT !.ctx = ctx, !.prim = jprim, !.stroke = jstroke]
        IN  IF ~Live(ctx) THEN Return("clipStrokeText", i, <<>>, NoBk, 0)
            ELSE IF text = NULL THEN Return("clipStrokeText", i, jni_throw_arg("text must not be null"), NoBk, 0)
            ELSE IF stroke = NULL THEN Return("clipStrokeText", i, jni_throw_arg("stroke must not be null"), NoBk, 0)
            ELSE \E lockOk \in BOOLEAN, bkOk \in BOOLEAN :
                     Return("clipStrokeText", i, Invoke(lockOk, bkOk), NoBk, 0)

NativeDevice_ignoreText ==
    \E ctx \in BOOLEAN, jprim \in JRefs :
        LET text == from_Text(jprim)
            i == [NoIn EXCEPT !.ctx = ctx, !.prim = jprim]
        IN  IF ~Live(ctx) THEN Return("ignoreText", i, <<>>, NoBk, 0)
            ELSE IF text = NULL THEN Return("ignoreText", i, jni_throw_arg("text must not be null"), NoBk, 0)
            ELSE \E lockOk \in BOOLEAN, bkOk \in BOOLEAN :
                     Return("ignoreText", i, Invoke(lockOk, bkOk), NoBk, 0)

NativeDevice_fillShade ==
    \E ctx \in BOOLEAN, jprim \in JRefs :
        LET shd == from_Shade(jprim)
            i == [NoIn EXCEPT !.ctx = ctx, !.prim = jprim]
        IN  IF ~Live(ctx) THEN Return("fillShade", i, <<>>, NoBk, 0)
            ELSE IF shd = NULL THEN Return("fillShade", i, jni_throw_arg("shade must not be null"), NoBk, 0)
            ELSE \E lockOk \in BOOLEAN, bkOk \in BOOLEAN :
                     Return("fillShade", i, Invoke(lockOk, bkOk), NoBk, 0)

NativeDevice_fillImage ==
    \E ctx \in BOOLEAN, jprim \in JRefs :
        LET img == from_Image(jprim)
            i == [NoIn EXCEPT !.ctx = ctx, !.prim = jprim]
        IN  IF ~Live(ctx) THEN Return("fillImage", i, <<>>, NoBk, 0)
            ELSE IF img = NULL THEN Return("fillImage", i, jni_throw_arg("image must not be null"), NoBk, 0)
            ELSE \E lockOk \in BOOLEAN, bkOk \in BOOLEAN :
                     Return("fillImage", i, Invoke(lockOk, bkOk), NoBk, 0)

NativeDevice_fillImageMask ==
    \E ctx \in BOOLEAN, jprim \in JRefs, jcs \in JColorSpaces, n \in ColorLens :
        LET img == from_Image(jprim)
            cs == from_ColorSpace(jcs)
            i == [NoIn EXCEPT !.ctx = ctx, !.prim = jprim, !.jcs = jcs, !.ncolor = n]
        IN  IF ~Live(ctx) THEN Return("fillImageMask", i, <<>>, NoBk, 0)
            ELSE IF img = NULL THEN Return("fillImageMask", i, jni_throw_arg("image must not be null"), NoBk, 0)
            ELSE IF ~from_jfloatArray(ExpectedN(cs), n) THEN Return("fillImageMask", i, <<ColorError>>, NoBk, 0)
            ELSE \E lockOk \in BOOLEAN, bkOk \in BOOLEAN :
                     Return("fillImageMask", i, Invoke(lockOk, bkOk), [NoBk EXCEPT !.cs = cs], 0)

NativeDevice_clipImageMask ==
    \E ctx \in BOOLEAN, jprim \in JRefs :
        LET img == from_Image(jprim)
            i == [NoIn EXCEPT !.ctx = ctx, !.prim = jprim]
        IN  IF ~Live(ctx) THEN Return("clipImageMask", i, <<>>, NoBk, 0)
            ELSE IF img = NULL THEN Return("clipImageMask", i, jni_throw_arg("image must not be null"), NoBk, 0)
            ELSE \E lockOk \in BOOLEAN, bkOk \in BOOLEAN :
                     Return("clipImageMask", i, Invoke(lockOk, bkOk), NoBk, 0)

NativeDevice_popClip ==
    \E ctx \in BOOLEAN :
        LET i == [NoIn EXCEPT !.ctx = ctx]
        IN  IF ~Live(ctx) THEN Return("popClip", i, <<>>, NoBk, 0)
            ELSE \E lockOk \in BOOLEAN, bkOk \in BOOLEAN :
                     Return("popClip", i, Invoke(lockOk, bkOk), NoBk, 0)

\* `name` is assigned only when jname is not null; with a null jname it is
\* read uninitialised, by fz_begin_layer and by ReleaseStringUTFChars: the
\* backend then receives any value, and the release of a name that was never
\* obtained is logged as "release_unobtained" (what the JVM does with it is
\* its own, and not part of this model).  A lock failure returns without
\* releasing the name.
NativeDevice_beginLayer ==
    \E ctx \in BOOLEAN, jname \in JNames, getOk \in BOOLEAN :
        LET i == [NoIn EXCEPT !.ctx = ctx, !.jname = jname]
            got == IF jname # "null" THEN <<"get_name">> ELSE <<>>
            release == IF jname # "null" THEN <<"release_name">> ELSE <<"release_unobtained">>
        IN  IF ~Live(ctx) THEN Return("beginLayer", i, <<>>, NoBk, 0)
            ELSE IF jname # "null" /\ ~getOk THEN Return("beginLayer", i, <<"get_name_fail">>, NoBk, 0)
            ELSE \E lockOk \in BOOLEAN, bkOk \in BOOLEAN, uninit \in Uninitialised :
                     LET lk == lockNativeDevice(lockOk)
                         name == IF jname # "null" THEN "chars" ELSE uninit
                     IN  IF lk.err # 0 THEN Return("beginLayer", i, got \o lk.ev, NoBk, 0)
                         ELSE Return("beginLayer", i,
                                     got \o lk.ev \o fz_try_always_catch(bkOk, release \o unlockNativeDevice(lk.info)),
                                     [NoBk EXCEPT !.name = name], 0)

NativeDevice_endLayer ==
    \E ctx \in BOOLEAN :
        LET i == [NoIn EXCEPT !.ctx = ctx]
        IN  IF ~Live(ctx) THEN Return("endLayer", i, <<>>, NoBk, 0)
            ELSE \E lockOk \in BOOLEAN, bkOk \in BOOLEAN :
                     Return("endLayer", i, Invoke(lockOk, bkOk), NoBk, 0)

NativeDevice_beginMask ==
    \E ctx \in BOOLEAN, a \in MaskArgs, jcs \in JColorSpaces, n \in ColorLens :
        LET rect == from_Rect(a[1])
            luminosity == a[2]
            cs == from_ColorSpace(jcs)
            i == [NoIn EXCEPT !.ctx = ctx, !.jcs = jcs, !.ncolor = n, !.x = a]
        IN  IF ~Live(ctx) THEN Return("beginMask", i, <<>>, NoBk, 0)
            ELSE IF ~from_jfloatArray(ExpectedN(cs), n) THEN Return("beginMask", i, <<ColorError>>, NoBk, 0)
            ELSE \E lockOk \in BOOLEAN, bkOk \in BOOLEAN :
                     Return("beginMask", i, Invoke(lockOk, bkOk),
                            [NoBk EXCEPT !.cs = cs, !.x = <<rect, luminosity>>], 0)

NativeDevice_endMask ==
    \E ctx \in BOOLEAN :
        LET i == [NoIn EXCEPT !.ctx = ctx]
        IN  IF ~Live(ctx) THEN Return("endMask", i, <<>>, NoBk, 0)
            ELSE \E lockOk \in BOOLEAN, bkOk \in BOOLEAN :
                     Return("endMask", i, Invoke(lockOk, bkOk), NoBk, 0)

\* fz_colorspace *cs = from_ColorSpace(env, self): the color space is resolved
\* from the device object, and jcs is never read.
NativeDevice_beginGroup ==
    \E ctx \in BOOLEAN, a \in GroupArgs, jcs \in JColorSpaces :
        LET rect == from_Rect(a[1])
            i == [NoIn EXCEPT !.ctx = ctx, !.jcs = jcs, !.x = a]
        IN  IF ~Live(ctx) THEN Return("beginGroup", i, <<>>, NoBk, 0)
            ELSE \E cs \in from_ColorSpace_of_self, lockOk \in BOOLEAN, bkOk \in BOOLEAN :
                     Return("beginGroup", i, Invoke(lockOk, bkOk),
                            [NoBk EXCEPT !.cs = cs, !.x = <<rect, a[2], a[3], a[4], a[5]>>], 0)

NativeDevice_endGroup ==
    \E ctx \in BOOLEAN :
        LET i == [NoIn EXCEPT !.ctx = ctx]
        IN  IF ~Live(ctx) THEN Return("endGroup", i, <<>>, NoBk, 0)
            ELSE \E lockOk \in BOOLEAN, bkOk \in BOOLEAN :
                     Return("endGroup", i, Invoke(lockOk, bkOk), NoBk, 0)

\* int i = 0; ... i = fz_begin_tile_id(...); ... fz_catch: return 0; return i;
\* (NativeDevice_beginTile_noreturn: without the final `return i`.)
NativeDevice_beginTile_noreturn ==
    \E ctx \in BOOLEAN, id \in TileIds :
        LET i == [NoIn EXCEPT !.ctx = ctx, !.x = <<id>>]
        IN  IF ~Live(ctx) THEN Return("beginTile", i, <<>>, NoBk, 0)
            ELSE \E lockOk \in BOOLEAN, bkOk \in BOOLEAN, token \in Tokens :
                     LET lk == lockNativeDevice(lockOk)
                     IN  /\ (bkOk => tileDepth < MaxTileDepth)
                         /\ IF lk.err # 0 THEN Return("beginTile", i, lk.ev, NoBk, 0)
                            ELSE Return("beginTile", i,
                                        lk.ev \o fz_try_always_catch(bkOk, unlockNativeDevice(lk.info)),
                                        [NoBk EXCEPT !.x = <<id>>, !.token = IF bkOk THEN token ELSE 0],
                                        0)
NativeDevice_beginTile ==
    \E ctx \in BOOLEAN, id \in TileIds :
        LET i == [NoIn EXCEPT !.ctx = ctx, !.x = <<id>>]
        IN  IF ~Live(ctx) THEN Return("beginTile", i, <<>>, NoBk, 0)
            ELSE \E lockOk \in BOOLEAN, bkOk \in BOOLEAN, token \in Tokens :
                     LET lk == lockNativeDevice(lockOk)
                     IN  /\ (bkOk => tileDepth < MaxTileDepth)
                         /\ IF lk.err # 0 THEN Return("beginTile", i, lk.ev, NoBk, 0)
                            ELSE Return("beginTile", i,
                                        lk.ev \o fz_try_always_catch(bkOk, unlockNativeDevice(lk.info)),
                                        [NoBk EXCEPT !.x = <<id>>, !.token = IF bkOk THEN token ELSE 0],
                                        IF bkOk THEN token ELSE 0)

\* inp.x holds the depth of the backend's tile stack when the call is made.
NativeDevice_endTile ==
    \E ctx \in BOOLEAN :
        LET i == [NoIn EXCEPT !.ctx = ctx, !.x = <<tileDepth>>]
        IN  IF ~Live(ctx) THEN Return("endTile", i, <<>>, NoBk, 0)
            ELSE \E lockOk \in BOOLEAN, bkOk \in BOOLEAN :
                     Return("endTile", i, Invoke(lockOk, fz_end_tile_ok(bkOk)), NoBk, 0)

\* FUN(Device_finalize): the superclass step, which releases the fz_device
\* and with it the backend's stack.
Device_finalize == [ev |-> <<"super_finalize">>, pointer |-> 0, tileDepth |-> 0]

\* The handle is freed and the nativeInfo field keeps its value: a later
\* finalize reads ninfo->pixmap out of freed storage, and frees ninfo again.
\* (NativeDevice_finalize_freefirst: fz_free before fz_drop_pixmap and before
\* the call of the superclass.)
NativeDevice_finalize_freefirst ==
    \E ctx \in BOOLEAN, stalePixmap \in {"drop_pixmap", "drop_garbage"} :
        LET drop == IF infoFrees = 0 THEN "drop_pixmap" ELSE stalePixmap
            l == IF ~ctx THEN <<>>
                 ELSE (IF nativeInfo # 0 THEN <<"free_info", drop>> ELSE <<>>) \o Device_finalize.ev
        IN  /\ (nativeInfo # 0 => infoFrees < MaxFinalize)
            /\ op' = "finalize"
            /\ inp' = [NoIn EXCEPT !.ctx = ctx]
            /\ log' = l
            /\ bk' = NoBk
            /\ ret' = 0
            /\ pointer' = IF ctx THEN Device_finalize.pointer ELSE pointer
            /\ tileDepth' = IF ctx THEN Device_finalize.tileDepth ELSE tileDepth
            /\ pixmapDrops' = pixmapDrops + Count(l, "drop_pixmap")
            /\ infoFrees' = infoFrees + Count(l, "free_info")
            /\ infoObject' = IF Has(l, "free_info") THEN NULL ELSE infoObject
            /\ UNCHANGED <<isNative, nativeInfo, nativeResource, held>>
NativeDevice_finalize ==
    \E ctx \in BOOLEAN, stalePixmap \in {"drop_pixmap", "drop_garbage"} :
        LET drop == IF infoFrees = 0 THEN "drop_pixmap" ELSE stalePixmap
            l == IF ~ctx THEN <<>>
                 ELSE Device_finalize.ev \o (IF nativeInfo # 0 THEN <<drop, "free_info">> ELSE <<>>)
        IN  /\ (nativeInfo # 0 => infoFrees < MaxFinalize)
            /\ op' = "finalize"
            /\ inp' = [NoIn EXCEPT !.ctx = ctx]
            /\ log' = l
            /\ bk' = NoBk
            /\ ret' = 0
            /\ pointer' = IF ctx THEN Device_finalize.pointer ELSE pointer
            /\ tileDepth' = IF ctx THEN Device_finalize.tileDepth ELSE tileDepth
            /\ pixmapDrops' = pixmapDrops + Count(l, "drop_pixmap")
            /\ infoFrees' = infoFrees + Count(l, "free_info")
            /\ infoObject' = IF Has(l, "free_info") THEN NULL ELSE infoObject
            /\ UNCHANGED <<isNative, nativeInfo, nativeResource, held>>

\* The Java side stores another object in NativeDevice.nativeResource.
ReplaceResource ==
    /\ pointer # 0 /\ nativeInfo # 0
    /\ \E r \in Resources \ {nativeResource} : nativeResource' = r
    /\ UNCHANGED <<pointer, isNative, nativeInfo, infoObject, held, tileDepth,
                   pixmapDrops, infoFrees, op, inp, log, bk, ret>>

Next ==
    \/ NativeDevice_close
    \/ NativeDevice_fillPath
    \/ NativeDevice_strokePath
    \/ NativeDevice_clipPath
    \/ NativeDevice_clipStrokePath
    \/ NativeDevice_fillText
    \/ NativeDevice_strokeText
    \/ NativeDevice_clipText
    \/ NativeDevice_clipStrokeText
    \/ NativeDevice_ignoreText
    \/ NativeDevice_fillShade
    \/ NativeDevice_fillImage
    \/ NativeDevice_fillImageMask
    \/ NativeDevice_clipImageMask
    \/ NativeDevice_popClip
    \/ NativeDevice_beginLayer
    \/ NativeDevice_endLayer
    \/ NativeDevice_beginMask
    \/ NativeDevice_endMask
    \/ NativeDevice_beginGroup
    \/ NativeDevice_endGroup
    \/ NativeDevice_beginTile
    \/ NativeDevice_endTile
    \/ NativeDevice_finalize
    \/ ReplaceResource

Spec == Init /\ [][Next]_vars

(***************************************************************************)
(* Properties of the dispatcher, each read off the last call.              *)
(***************************************************************************)
DispatchOps == {"close", "fillPath", "strokePath", "clipPath", "clipStrokePath",
                "fillText", "strokeText", "clipText", "clipStrokeText", "ignoreText",
                "fillShade", "fillImage", "fillImageMask", "clipImageMask", "popClip",
                "beginLayer", "endLayer", "beginMask", "endMask", "beginGroup",
                "endGroup", "beginTile", "endTile"}
ColorOps == {"fillPath", "strokePath", "fillText", "strokeText", "fillImageMask", "beginMask"}
IsDispatch == op \in DispatchOps
HasHandle == isNative /\ nativeInfo # 0
\* The device was live when the last call was made (no dispatcher call changes pointer).
LiveCall == inp.ctx /\ pointer # 0
Called == Count(log, "backend_ok") + Count(log, "backend_fail")
LockCalls == Count(log, "lock_ok") + Count(log, "lock_fail")
IsArgError(e) == e \in ArgErrors \/ e = ColorError
IsCore(e) == e \in {"lock_ok", "lock_fail", "throw_LockFailure", "backend_ok", "backend_fail",
                     "unlock", "throw_BackendFailure"} \/ IsArgError(e)
\* The lock, backend, unlock and throw steps of the call, in order.
Core == SelectSeq(log, IsCore)
InvalidArgument == Len(Core) = 1 /\ IsArgError(Core[1])
NoSideEffects == Called = 0 /\ LockCalls = 0 /\ Count(log, "unlock") = 0 /\ bk = NoBk /\ held = 0

\* C1: on a device with a handle, every dispatcher call runs unlock exactly
\* once for each lock that succeeded, after that lock, whether the backend call
\* succeeded or failed, and the lock is not held when the call has returned.
C1_UnlockOncePerLock ==
    (IsDispatch /\ HasHandle) =>
        /\ Count(log, "unlock") = Count(log, "lock_ok")
        /\ Count(log, "lock_ok") <= 1
        /\ (Has(log, "lock_ok") => Pos(log, "lock_ok") < Pos(log, "unlock"))
        /\ held = 0
C1_Witness ==
    /\ op = "fillPath" /\ HasHandle
    /\ Core = <<"lock_ok", "backend_fail", "unlock", "throw_BackendFailure">>
    /\ held = 0

\* C2: when the handle's lock fails in a dispatcher call, LockFailure is
\* signalled, the backend is not invoked and unlock is not invoked.
C2_LockFailureAborts ==
    (IsDispatch /\ Has(log, "lock_fail")) =>
        /\ Core = <<"lock_fail", "throw_LockFailure">>
        /\ Called = 0
        /\ Count(log, "unlock") = 0
        /\ bk = NoBk
C2_Witness ==
    /\ op = "fillPath" /\ HasHandle /\ Has(log, "lock_fail") /\ Has(log, "throw_LockFailure")

\* C3: when the lock succeeds and the backend fails, unlock runs exactly once
\* and before the BackendFailure is thrown; a backend failure is thrown to the
\* caller in every dispatcher call, exactly once, handle or not.
C3_UnlockBeforeRethrow ==
    (IsDispatch /\ Has(log, "backend_fail")) =>
        /\ Count(log, "throw_BackendFailure") = 1
        /\ Pos(log, "backend_fail") < Pos(log, "throw_BackendFailure")
        /\ (Has(log, "lock_ok") =>
                /\ Count(log, "unlock") = 1
                /\ Pos(log, "backend_fail") < Pos(log, "unlock")
                /\ Pos(log, "unlock") < Pos(log, "throw_BackendFailure"))
C3_Witness ==
    /\ op = "beginTile" /\ HasHandle
    /\ Core = <<"lock_ok", "backend_fail", "unlock", "throw_BackendFailure">>
    /\ ret = 0

TakesResource == inp.prim # "na"
ArgAbsent == inp.prim = "null" \/ inp.stroke = "null"
\* The channel count the caller's color must have: that of the color space
\* passed, or the maximum when none is passed.
Channels(jcs) == IF jcs = "gray" THEN 1 ELSE IF jcs = "rgb" THEN 3 ELSE FZ_MAX_COLORS
ColorMismatch == op \in ColorOps /\ inp.ncolor # Channels(inp.jcs)

\* C4 as stated, for the calls that have a context: in every drawing
\* operation that takes a required resource (path, text, stroke style, shading,
\* image), an absent one yields InvalidArgument with no backend, lock or unlock
\* call.
C4_Original ==
    (IsDispatch /\ inp.ctx /\ TakesResource /\ ArgAbsent) => (InvalidArgument /\ NoSideEffects)
\* C4 amended: on a live device (context and backend present) an absent
\* required resource yields exactly one InvalidArgument; on any device, live or
\* not, the call invokes neither the backend nor lock nor unlock.
C4_AbsentArgument ==
    (IsDispatch /\ TakesResource /\ ArgAbsent) =>
        /\ NoSideEffects
        /\ (LiveCall => (InvalidArgument /\ Core[1] \in ArgErrors /\ Len(log) = 1))
        /\ (~LiveCall => log = <<>>)
C4_Witness ==
    /\ op = "clipStrokeText" /\ LiveCall /\ HasHandle
    /\ inp.prim = "obj" /\ inp.stroke = "null"
    /\ log = <<"stroke must not be null">>

\* C5 as stated, for the calls that have a context: in every operation
\* taking a color array, a length other than the channel count yields
\* InvalidArgument with no backend, lock or unlock call.
C5_Original ==
    (IsDispatch /\ inp.ctx /\ ColorMismatch) => (InvalidArgument /\ NoSideEffects)
\* C5 amended: on a live device a color array of the wrong length yields
\* exactly one InvalidArgument; on any device, live or not, the call invokes
\* neither the backend nor lock nor unlock.
C5_ColorLength ==
    (IsDispatch /\ ColorMismatch) =>
        /\ NoSideEffects
        /\ (LiveCall => (InvalidArgument /\ Len(log) = 1))
        /\ ((LiveCall /\ ~ArgAbsent) => log = <<ColorError>>)
        /\ (~LiveCall => log = <<>>)
C5_Witness ==
    /\ op = "fillPath" /\ LiveCall /\ HasHandle
    /\ inp.prim = "obj" /\ inp.jcs = "gray" /\ inp.ncolor = 3
    /\ log = <<ColorError>>

\* The call got past the checks that precede the lock step: the device is
\* live, the required resources are present, the color has the right length
\* and the layer name, when one is passed, was obtained.
PastChecks ==
    /\ LiveCall
    /\ ~ArgAbsent
    /\ ~ColorMismatch
    /\ ~Has(log, "get_name_fail")

\* C6: on a device with no handle no dispatcher call invokes lock or unlock
\* or fails in the lock step, and a call that reaches the lock step ends as
\* the backend call ends: in success, or in the backend's error, thrown.
C6_NoHandleNoLock ==
    (IsDispatch /\ ~HasHandle) =>
        /\ LockCalls = 0
        /\ Count(log, "unlock") = 0
        /\ ~Has(log, "throw_LockFailure")
        /\ ~Has(log, "refresh")
        /\ held = 0
        /\ (PastChecks => Core \in {<<"backend_ok">>, <<"backend_fail", "throw_BackendFailure">>})
C6_Witness ==
    /\ op = "fillPath" /\ ~HasHandle /\ isNative /\ PastChecks
    /\ log = <<"backend_fail", "throw_BackendFailure">>

\* C7: over any sequence of finalize calls the handle's pixmap is dropped at
\* most once and the handle's storage is freed at most once.
C7_FinalizeIdempotent == pixmapDrops <= 1 /\ infoFrees <= 1

\* C8: a dispatcher call on a device whose backend has been released does
\* nothing and returns: no lock, no backend call, no unlock, no exception, and
\* beginTile returns 0.
C8_StaleNoOp ==
    (IsDispatch /\ pointer = 0) => (log = <<>> /\ NoSideEffects /\ ret = 0)
C8_Witness ==
    /\ op = "beginTile" /\ pointer = 0 /\ inp.ctx /\ nativeInfo # 0 /\ log = <<>> /\ ret = 0

\* C9: beginGroup hands the backend the color space resolved from its jcs
\* parameter, and the caller's rect, isolated, knockout, blendmode and alpha.
C9_GroupArguments ==
    (op = "beginGroup" /\ bk.called) =>
        /\ bk.cs = from_ColorSpace(inp.jcs)
        /\ bk.x = <<from_Rect(inp.x[1]), inp.x[2], inp.x[3], inp.x[4], inp.x[5]>>

\* C10: endTile with no open tile, on a live device whose lock step does not
\* fail: the dispatcher raises no error of its own, calls the backend once,
\* between lock and unlock when there is a handle, and throws the backend's
\* rejection as BackendFailure after unlock.  When the lock fails instead, the
\* call ends in LockFailure: in neither case does it return silently.
C10_UnmatchedEndTile ==
    (op = "endTile" /\ LiveCall /\ inp.x[1] = 0) =>
        /\ tileDepth = 0
        /\ (~Has(log, "lock_fail") =>
                Core = IF HasHandle
                       THEN <<"lock_ok", "backend_fail", "unlock", "throw_BackendFailure">>
                       ELSE <<"backend_fail", "throw_BackendFailure">>)
        /\ (Has(log, "lock_fail") => Core = <<"lock_fail", "throw_LockFailure">>)
C10_Witness ==
    /\ op = "endTile" /\ LiveCall /\ HasHandle /\ inp.x[1] = 0
    /\ Core = <<"lock_ok", "backend_fail", "unlock", "throw_BackendFailure">>

\* The steps of a finalize call that release something.
Releases == Count(log, "drop_pixmap") + Count(log, "drop_garbage") + Count(log, "free_info")
Throws == Count(log, "throw_LockFailure") + Count(log, "throw_BackendFailure")
             + Cardinality({k \in DOMAIN log : IsArgError(log[k])})

\* C11: a finalize call with a context calls the superclass's finalize
\* first; with a handle it then drops the handle's pixmap and then frees the
\* handle, in that order and once each; with no handle, or with no context, it
\* releases nothing and throws nothing; it never calls lock or unlock.
C11_FinalizeOrder ==
    (op = "finalize") =>
        /\ LockCalls = 0 /\ Count(log, "unlock") = 0 /\ ~Has(log, "refresh") /\ held = 0
        /\ Called = 0 /\ bk = NoBk
        /\ Throws = 0
        /\ ((~inp.ctx \/ nativeInfo = 0) => Releases = 0)
        /\ (~inp.ctx => log = <<>>)
        /\ ((inp.ctx /\ nativeInfo = 0) => log = <<"super_finalize">>)
        /\ ((inp.ctx /\ nativeInfo # 0) =>
                /\ Len(log) = 3
                /\ log[1] = "super_finalize"
                /\ log[2] \in {"drop_pixmap", "drop_garbage"}
                /\ log[3] = "free_info"
                /\ (infoFrees = 1 => log[2] = "drop_pixmap"))
C11_Witness ==
    /\ op = "finalize" /\ inp.ctx /\ nativeInfo # 0 /\ infoFrees = 1
    /\ log = <<"super_finalize", "drop_pixmap", "free_info">>
    /\ pointer = 0

\* The position in the log of the call of info->lock, 0 when there is none.
LockPos(l) == IF Has(l, "lock_ok") THEN Pos(l, "lock_ok") ELSE Pos(l, "lock_fail")

\* C12: in every dispatcher call that calls the handle's lock function, the
\* handle's cached reference is set from the device's nativeResource field
\* before the lock function is called, so that the lock function finds in the
\* handle the object the field holds at the time of the call, whatever an
\* earlier call had cached and whether the lock then succeeds or fails.
C12_RefreshBeforeLock ==
    [][(IsDispatch' /\ LockCalls' > 0 /\ nativeResource' = nativeResource) =>
            /\ Count(log', "refresh") = 1
            /\ Pos(log', "refresh") < LockPos(log')
            /\ infoObject' = nativeResource]_vars
C12_Witness ==
    /\ IsDispatch /\ HasHandle /\ Has(log, "lock_fail")
    /\ Pos(log, "refresh") < LockPos(log)
    /\ nativeResource = "bitmapB" /\ infoObject = "bitmapB"

\* C13: when self is no NativeDevice, a dispatcher call that reaches the lock
\* step calls no lock function and reads no handle, fails with no LockFailure,
\* calls the backend once, and calls no unlock after it: it ends as the
\* backend call ends.
C13_NotNativeSkipsLock ==
    (IsDispatch /\ ~isNative /\ PastChecks) =>
        /\ LockCalls = 0
        /\ ~Has(log, "refresh")
        /\ ~Has(log, "throw_LockFailure")
        /\ Called = 1 /\ bk.called
        /\ Count(log, "unlock") = 0
        /\ held = 0
        /\ Core[Len(Core)] \in {"backend_ok", "throw_BackendFailure"}
C13_Witness ==
    /\ op = "popClip" /\ ~isNative /\ LiveCall
    /\ log = <<"backend_ok">>
    /\ bk.called

\* C14: beginTile returns the integer fz_begin_tile_id produced when the
\* backend call succeeded, and 0 when the call returned at the liveness check,
\* when the lock failed and when the backend failed; when the backend failed
\* BackendFailure is thrown as well, after the unlock when there was a lock.
C14_BeginTileReturn ==
    (op = "beginTile") =>
        /\ (Has(log, "backend_ok") => (bk.called /\ ret = bk.token))
        /\ (~Has(log, "backend_ok") => ret = 0)
        /\ (~LiveCall => (ret = 0 /\ log = <<>>))
        /\ (Has(log, "lock_fail") => (ret = 0 /\ Called = 0))
        /\ (Has(log, "backend_fail") =>
                /\ ret = 0
                /\ Count(log, "throw_BackendFailure") = 1
                /\ (Has(log, "lock_ok") =>
                        /\ Count(log, "unlock") = 1
                        /\ Pos(log, "unlock") < Pos(log, "throw_BackendFailure")))
C14_Witness ==
    /\ op = "beginTile" /\ LiveCall /\ HasHandle
    /\ Core = <<"lock_ok", "backend_ok", "unlock">>
    /\ bk.token = MaxToken /\ ret = MaxToken

\* C15: a dispatcher call calls the lock function at most once, the backend
\* at most once and unlock at most once, and throws at most once, on every
\* path; after a failed lock or a failed backend call nothing is tried again.
C15_NoRetry ==
    IsDispatch =>
        /\ LockCalls <= 1
        /\ Count(log, "refresh") <= 1
        /\ Called <= 1
        /\ Count(log, "unlock") <= 1
        /\ Throws <= 1
        /\ (Has(log, "lock_fail") => Core[Len(Core)] = "throw_LockFailure")
        /\ (Has(log, "backend_fail") => Core[Len(Core)] = "throw_BackendFailure")
C15_Witness ==
    /\ op = "close" /\ LiveCall /\ HasHandle
    /\ Core = <<"lock_ok", "backend_fail", "unlock", "throw_BackendFailure">>
    /\ LockCalls = 1 /\ Called = 1

\* How many locks are held after the first k steps of the call.
Depth(k) == Count(SubSeq(log, 1, k), "lock_ok") - Count(SubSeq(log, 1, k), "unlock")
BackendPos == IF Has(log, "backend_ok") THEN Pos(log, "backend_ok") ELSE Pos(log, "backend_fail")

\* C16: on a device with a handle, the backend call of every dispatcher call
\* lies after a lock that succeeded and before the unlock of that lock, so the
\* backend runs with the lock held; at every step of every call the number of
\* locks held is 0 or 1, and it is 0 between calls.  (Calls on one device come
\* one at a time.)
C16_BackendInsideLock ==
    (IsDispatch /\ HasHandle) =>
        /\ \A k \in 0 .. Len(log) : Depth(k) \in {0, 1}
        /\ held = 0
        /\ (Called > 0 =>
                /\ Has(log, "lock_ok") /\ Has(log, "unlock")
                /\ Pos(log, "lock_ok") < BackendPos
                /\ BackendPos < Pos(log, "unlock")
                /\ Depth(BackendPos) = 1)
C16_Witness ==
    /\ op = "strokePath" /\ LiveCall /\ HasHandle
    /\ Core = <<"lock_ok", "backend_ok", "unlock">>
    /\ Depth(BackendPos) = 1 /\ held = 0

\* C17: in beginLayer, the characters obtained from a name that was passed
\* are released exactly once on every path taken after they were obtained,
\* the path where the lock fails and the path where the backend fails included.
C17_NameReleasedOnce ==
    (op = "beginLayer" /\ Has(log, "get_name")) =>
        /\ Count(log, "release_name") = 1
        /\ Pos(log, "get_name") < Pos(log, "release_name")

\* C18: beginLayer called with a null name on a live device hands the backend
\* a null name, never an undefined value, and does not call the string release
\* for a name it did not obtain.
C18_AbsentName ==
    (op = "beginLayer" /\ LiveCall /\ inp.jname = "null") =>
        /\ (bk.called => bk.name = NULL)
        /\ ~Has(log, "release_unobtained")

\* The message for the absent primary resource of the operation.
PrimaryError ==
    IF op \in {"fillPath", "strokePath", "clipPath", "clipStrokePath"} THEN "path must not be null"
    ELSE IF op \in {"fillText", "strokeText", "clipText", "clipStrokeText", "ignoreText"}
         THEN "text must not be null"
    ELSE IF op = "fillShade" THEN "shade must not be null"
    ELSE "image must not be null"

\* C19: the checks of a dispatcher call come in one order, all before the
\* lock: a call on a device that is not live returns silently whatever its
\* arguments; on a live device an absent primary resource is reported, else an
\* absent stroke style, else a color of the wrong length; a call reports at
\* most one error, and one that reports an argument error calls no lock.
C19_CheckOrder ==
    IsDispatch =>
        /\ (~LiveCall => (log = <<>> /\ NoSideEffects))
        /\ ((LiveCall /\ inp.prim = "null") => log = <<PrimaryError>>)
        /\ ((LiveCall /\ inp.prim # "null" /\ inp.stroke = "null") =>
                log = <<"stroke must not be null">>)
        /\ ((LiveCall /\ ~ArgAbsent /\ ColorMismatch) => log = <<ColorError>>)
        /\ Throws <= 1
        /\ ((\E k \in DOMAIN log : IsArgError(log[k])) => NoSideEffects)
C19_Witness ==
    /\ op = "strokePath" /\ LiveCall /\ HasHandle
    /\ inp.prim = "null" /\ inp.stroke = "null" /\ inp.jcs = "gray" /\ inp.ncolor = 3
    /\ log = <<"path must not be null">>

\* C20: on a live device, whether a dispatcher call reaches the backend is
\* decided by that call alone, and never by the calls made before it: the call
\* reaches the backend exactly when its own checks pass (and, in beginLayer,
\* the characters of its name could be obtained) and its lock step does not
\* fail.  This holds after every sequence of calls: after a close, and for an
\* endTile, popClip, endMask, endGroup or endLayer that matches no begin.
C20_NoProtocolState ==
    (IsDispatch /\ LiveCall) =>
        /\ (bk.called <=> (PastChecks /\ ~Has(log, "lock_fail")))
        /\ (bk.called <=> Called = 1)
        /\ (op \in {"close", "popClip", "endLayer", "endMask", "endGroup", "endTile"} =>
                (bk.called <=> ~Has(log, "lock_fail")))
C20_Witness ==
    /\ op = "endTile" /\ LiveCall /\ ~HasHandle
    /\ inp.x[1] = 0 /\ tileDepth = 0
    /\ bk.called /\ Called = 1

====
